---- MODULE Spec2Model ----
(***************************************************************************)
(* Indexer Futures Contract (src/indexer-futures-contract.rs).             *)
(*                                                                         *)
(* The contract's storage (indexer_stakes, futures, poi_data), its five    *)
(* external operations and the token gateway it calls.  A call to the      *)
(* gateway is the one point where control leaves the contract: while it    *)
(* runs, the gateway may call the contract again, so every operation that  *)
(* transfers tokens is split at transfer_grt into the part before the      *)
(* gateway call and the part after it.  An external operation that returns *)
(* Err reverts every storage write and event of its call frame.            *)
(***************************************************************************)
EXTENDS Integers, Sequences, FiniteSets, TLC

\* ---------------------------------------------------------------- bounds
MaxUint == 3            \* largest value of the unsigned integer type
MaxTime == 2            \* largest block timestamp explored
MaxCalls == 3           \* calls whose writes stand, per behaviour
MaxDepth == 2           \* call frames that can be open at once

\* ------------------------------------------------------------ identities
\* One indexer and two callers, one of them the indexer itself: a1 is the
\* caller of stake, create_future and settle_future and the indexer named to
\* cancel_future; both identities call cancel_future.
Addr == {"a1", "a2"}
Indexers == {"a1"}
Zero == "zero"                  \* Address::from(0)
Self == "self"                  \* Address::from(self)
Staking == "staking"            \* staking_contract, set by the constructor

SubgraphIds == {"s1"}
BlockNumbers == {0, 1}
Pois == {"p1", "p2"}
ZeroPoi == "p0"                 \* the value of an entry never written

Uint == 0 .. MaxUint
Modulus == MaxUint + 1

\* the arguments explored: the ends of the range and the step next to zero
StakeAmounts == {1, MaxUint}
Amounts == {0, MaxUint}
Durations == {1, MaxUint}

\* U256 `+`: the sum, reduced to the width of the type
WrappingAdd(a, b) == (a + b) % Modulus

\* ------------------------------------------------------------- results
Ok == "Ok"
Pending == "Pending"            \* the call is inside the gateway
DuplicateFuture == "DuplicateFuture"
InsufficientStake == "InsufficientStake"
NoActiveFuture == "NoActiveFuture"
NotMatured == "NotMatured"
PerformanceCheckFailed == "PerformanceCheckFailed"
TransferFailed == "TransferFailed"

VARIABLES
    indexer_stakes,     \* Address -> U256
    futures,            \* (Address, Address) -> Future
    poi_data,           \* (B256, U256) -> B256
    custody,            \* tokens the gateway holds for the contract
    escrows,            \* per key: records created less payouts made
    log,                \* events of the current outermost call
    timestamp,          \* block::timestamp()
    stack,              \* open call frames, each waiting in the gateway
    last,               \* the call that entered or returned last
    ncalls              \* calls so far whose writes stand

vars == <<indexer_stakes, futures, poi_data, custody, escrows, log, timestamp,
          stack, last, ncalls>>

\* a buyer is any address the caller names: another identity, the caller
\* itself, or the zero address
Buyers == Addr \cup {Zero}
Keys == Addr \X Buyers
PoiKeys == SubgraphIds \X BlockNumbers

\* a slot of the futures map that was never written reads as all zero
ZeroFuture ==
    [indexer |-> Zero, buyer |-> Zero, amount |-> 0, start_time |-> 0,
     duration |-> 0, is_active |-> FALSE]

NoTransfer == [variant |-> "none", from |-> Zero, to |-> Zero, amount |-> 0]

NoCall ==
    [op |-> "none", caller |-> Zero, key |-> <<Zero, Zero>>, amount |-> 0,
     result |-> Ok]

\* ------------------------------------------------------------- gateway
\* call::transfer_tokens: the zero address as `from` selects transfer,
\* any other `from` selects transferFrom
transfer_tokens(from, to, amount) ==
    IF from = Zero
        THEN [variant |-> "transfer", from |-> Self, to |-> to, amount |-> amount]
        ELSE [variant |-> "transferFrom", from |-> from, to |-> to, amount |-> amount]

\* what a transfer that succeeded adds to the contract's own balance
CustodyDelta(x) ==
    (IF x.to = Self THEN x.amount ELSE 0) - (IF x.from = Self THEN x.amount ELSE 0)

\* ---------------------------------------------------- the call's storage
Storage ==
    [indexer_stakes |-> indexer_stakes, futures |-> futures,
     poi_data |-> poi_data, log |-> IF stack = <<>> THEN <<>> ELSE log]

\* check_indexer_performance: the indexer has any stake
check_indexer_performance(s, indexer) == s.indexer_stakes[indexer] > 0

\* -------------------------------------------- operations, up to the gateway
\* Each returns the result so far, the storage it has written and the
\* transfer it asks the gateway for.
Outcome(result, s, xfer, amount) ==
    [result |-> result, storage |-> s, xfer |-> xfer, amount |-> amount]

stake(s, caller, amount) ==
    LET current_stake == s.indexer_stakes[caller]
        s1 == [s EXCEPT !.indexer_stakes[caller] = WrappingAdd(current_stake, amount)]
    IN  Outcome(Pending, s1, transfer_tokens(caller, Staking, amount), amount)

\* create_future with the stake check before the duplicate check
create_future_stake_first(s, caller, buyer, amount, duration) ==
    LET key == <<caller, buyer>>
        future == [indexer |-> caller, buyer |-> buyer, amount |-> amount,
                   start_time |-> timestamp, duration |-> duration,
                   is_active |-> TRUE]
    IN  IF s.indexer_stakes[caller] < amount
            THEN Outcome(InsufficientStake, s, NoTransfer, amount)
        ELSE IF s.futures[key].is_active
            THEN Outcome(DuplicateFuture, s, NoTransfer, amount)
        ELSE Outcome(Pending, [s EXCEPT !.futures[key] = future],
                     transfer_tokens(buyer, Self, amount), amount)

\* create_future with `<=` for `<` in the stake check
create_future_strict(s, caller, buyer, amount, duration) ==
    LET key == <<caller, buyer>>
        future == [indexer |-> caller, buyer |-> buyer, amount |-> amount,
                   start_time |-> timestamp, duration |-> duration,
                   is_active |-> TRUE]
    IN  IF s.futures[key].is_active
            THEN Outcome(DuplicateFuture, s, NoTransfer, amount)
        ELSE IF s.indexer_stakes[caller] <= amount
            THEN Outcome(InsufficientStake, s, NoTransfer, amount)
        ELSE Outcome(Pending, [s EXCEPT !.futures[key] = future],
                     transfer_tokens(buyer, Self, amount), amount)

\* create_future that refuses a key that was ever written
create_future_once(s, caller, buyer, amount, duration) ==
    LET key == <<caller, buyer>>
        future == [indexer |-> caller, buyer |-> buyer, amount |-> amount,
                   start_time |-> timestamp, duration |-> duration,
                   is_active |-> TRUE]
    IN  IF s.futures[key] # ZeroFuture
            THEN Outcome(DuplicateFuture, s, NoTransfer, amount)
        ELSE IF s.indexer_stakes[caller] < amount
            THEN Outcome(InsufficientStake, s, NoTransfer, amount)
        ELSE Outcome(Pending, [s EXCEPT !.futures[key] = future],
                     transfer_tokens(buyer, Self, amount), amount)

\* create_future that takes the amount out of the indexer's stake
create_future_reserving(s, caller, buyer, amount, duration) ==
    LET key == <<caller, buyer>>
        future == [indexer |-> caller, buyer |-> buyer, amount |-> amount,
                   start_time |-> timestamp, duration |-> duration,
                   is_active |-> TRUE]
    IN  IF s.futures[key].is_active
            THEN Outcome(DuplicateFuture, s, NoTransfer, amount)
        ELSE IF s.indexer_stakes[caller] < amount
            THEN Outcome(InsufficientStake, s, NoTransfer, amount)
        ELSE Outcome(Pending,
                     [s EXCEPT !.futures[key] = future,
                               !.indexer_stakes[caller] = @ - amount],
                     transfer_tokens(buyer, Self, amount), amount)

create_future(s, caller, buyer, amount, duration) ==
    LET key == <<caller, buyer>>
        future == [indexer |-> caller, buyer |-> buyer, amount |-> amount,
                   start_time |-> timestamp, duration |-> duration,
                   is_active |-> TRUE]
    IN  IF s.futures[key].is_active
            THEN Outcome(DuplicateFuture, s, NoTransfer, amount)
        ELSE IF s.indexer_stakes[caller] < amount
            THEN Outcome(InsufficientStake, s, NoTransfer, amount)
        ELSE Outcome(Pending, [s EXCEPT !.futures[key] = future],
                     transfer_tokens(buyer, Self, amount), amount)

\* cancel_future that calls the gateway with is_active still true
cancel_future_flag_late(s, caller, indexer) ==
    LET key == <<indexer, caller>>
        future == s.futures[key]
        amount == future.amount
        s1 == [s EXCEPT !.log = Append(@, [name |-> "FutureCancelled",
                                           indexer |-> indexer, buyer |-> caller,
                                           amount |-> amount])]
    IN  IF ~future.is_active
            THEN Outcome(NoActiveFuture, s, NoTransfer, 0)
        ELSE Outcome(Pending, s1, transfer_tokens(Self, caller, amount), amount)

\* cancel_future that refuses a Future that has matured
cancel_future_before_maturity(s, caller, indexer) ==
    LET key == <<indexer, caller>>
        future == s.futures[key]
        amount == future.amount
        s1 == [s EXCEPT !.futures[key].is_active = FALSE,
                        !.log = Append(@, [name |-> "FutureCancelled",
                                           indexer |-> indexer, buyer |-> caller,
                                           amount |-> amount])]
    IN  IF ~future.is_active
            THEN Outcome(NoActiveFuture, s, NoTransfer, 0)
        ELSE IF timestamp >= WrappingAdd(future.start_time, future.duration)
            THEN Outcome(NotMatured, s, NoTransfer, 0)
        ELSE Outcome(Pending, s1, transfer_tokens(Self, caller, amount), amount)

\* cancel_future that ends every Future of the indexer
cancel_future_all(s, caller, indexer) ==
    LET key == <<indexer, caller>>
        future == s.futures[key]
        amount == future.amount
        s1 == [s EXCEPT !.futures = [k \in Keys |->
                                        IF k[1] = indexer
                                            THEN [s.futures[k] EXCEPT !.is_active = FALSE]
                                            ELSE s.futures[k]],
                        !.log = Append(@, [name |-> "FutureCancelled",
                                           indexer |-> indexer, buyer |-> caller,
                                           amount |-> amount])]
    IN  IF ~future.is_active
            THEN Outcome(NoActiveFuture, s, NoTransfer, 0)
        ELSE Outcome(Pending, s1, transfer_tokens(Self, caller, amount), amount)

cancel_future(s, caller, indexer) ==
    LET key == <<indexer, caller>>
        future == s.futures[key]
        amount == future.amount
        s1 == [s EXCEPT !.futures[key].is_active = FALSE,
                        !.log = Append(@, [name |-> "FutureCancelled",
                                           indexer |-> indexer, buyer |-> caller,
                                           amount |-> amount])]
    IN  IF ~future.is_active
            THEN Outcome(NoActiveFuture, s, NoTransfer, 0)
        ELSE Outcome(Pending, s1, transfer_tokens(Self, caller, amount), amount)

\* settle_future without the is_active check
settle_future_unchecked(s, caller, buyer) ==
    LET key == <<caller, buyer>>
        future == s.futures[key]
        current_time == timestamp
        end_time == WrappingAdd(future.start_time, future.duration)
        amount == future.amount
        s1 == [s EXCEPT !.futures[key].is_active = FALSE,
                        !.log = Append(@, [name |-> "FutureSettled",
                                           indexer |-> caller, buyer |-> buyer,
                                           amount |-> amount])]
    IN  IF current_time < end_time
            THEN Outcome(NotMatured, s, NoTransfer, 0)
        ELSE IF ~check_indexer_performance(s, caller)
            THEN Outcome(PerformanceCheckFailed, s, NoTransfer, 0)
        ELSE Outcome(Pending, s1, transfer_tokens(Self, caller, amount), amount)

settle_future(s, caller, buyer) ==
    LET key == <<caller, buyer>>
        future == s.futures[key]
        current_time == timestamp
        end_time == WrappingAdd(future.start_time, future.duration)
        amount == future.amount
        s1 == [s EXCEPT !.futures[key].is_active = FALSE,
                        !.log = Append(@, [name |-> "FutureSettled",
                                           indexer |-> caller, buyer |-> buyer,
                                           amount |-> amount])]
    IN  IF ~future.is_active
            THEN Outcome(NoActiveFuture, s, NoTransfer, 0)
        ELSE IF current_time < end_time
            THEN Outcome(NotMatured, s, NoTransfer, 0)
        ELSE IF ~check_indexer_performance(s, caller)
            THEN Outcome(PerformanceCheckFailed, s, NoTransfer, 0)
        ELSE Outcome(Pending, s1, transfer_tokens(Self, caller, amount), amount)

\* submit_poi that keeps the first value of a key
submit_poi_first_wins(s, subgraph_id, block_number, poi) ==
    LET key == <<subgraph_id, block_number>>
        s1 == [s EXCEPT !.poi_data[key] = IF @ = ZeroPoi THEN poi ELSE @,
                        !.log = Append(@, [name |-> "POISubmitted",
                                           subgraphId |-> subgraph_id,
                                           blockNumber |-> block_number,
                                           poi |-> poi])]
    IN  Outcome(Ok, s1, NoTransfer, 0)

submit_poi(s, subgraph_id, block_number, poi) ==
    LET key == <<subgraph_id, block_number>>
        s1 == [s EXCEPT !.poi_data[key] = poi,
                        !.log = Append(@, [name |-> "POISubmitted",
                                           subgraphId |-> subgraph_id,
                                           blockNumber |-> block_number,
                                           poi |-> poi])]
    IN  Outcome(Ok, s1, NoTransfer, 0)

\* ------------------------------------------ operations, after the gateway
\* what the operation still does once transfer_grt has returned Ok
AfterTransfer(f, s) ==
    IF f.op = "stake"
        THEN [s EXCEPT !.log = Append(@, [name |-> "IndexerStaked",
                                         indexer |-> f.caller,
                                         amount |-> f.amount])]
    ELSE IF f.op = "create_future"
        THEN [s EXCEPT !.log = Append(@, [name |-> "FutureCreated",
                                         indexer |-> f.key[1], buyer |-> f.key[2],
                                         amount |-> f.amount,
                                         duration |-> f.duration])]
    ELSE s

\* ------------------------------------------------------------- plumbing
Write(s) ==
    /\ indexer_stakes' = s.indexer_stakes
    /\ futures' = s.futures
    /\ poi_data' = s.poi_data
    /\ log' = s.log

\* An external operation is entered: it returns at once (Ok commits what it
\* wrote, Err reverts it), or it is left waiting in the gateway with what
\* it wrote so far in storage.
Enter(op, caller, key, duration, s, r) ==
    /\ Len(stack) < MaxDepth
    /\ r.result \in {Pending, Ok} => ncalls < MaxCalls
    /\ ncalls' = IF r.result \in {Pending, Ok} THEN ncalls + 1 ELSE ncalls
    /\ last' = [op |-> op, caller |-> caller, key |-> key,
                amount |-> r.amount, result |-> r.result]
    /\ IF r.result = Pending
          THEN /\ Write(r.storage)
               /\ stack' = Append(stack,
                      [op |-> op, caller |-> caller, key |-> key,
                       amount |-> r.amount, duration |-> duration,
                       xfer |-> r.xfer,
                       snap |-> [storage |-> s, custody |-> custody,
                                 escrows |-> escrows, ncalls |-> ncalls]])
       ELSE IF r.result = Ok
          THEN Write(r.storage) /\ stack' = stack
       ELSE Write(s) /\ stack' = stack
    /\ escrows' = IF r.result = Pending /\ op = "create_future"
                     THEN [escrows EXCEPT ![key] = @ + 1]
                     ELSE escrows
    /\ UNCHANGED <<custody, timestamp>>

Top == stack[Len(stack)]
Pop == SubSeq(stack, 1, Len(stack) - 1)

Returned(f, result) ==
    [op |-> f.op, caller |-> f.caller, key |-> f.key, amount |-> f.amount,
     result |-> result]

\* ------------------------------------------------------------- actions
StakeCall(caller, amount) ==
    \E s \in {Storage} : \E r \in {stake(s, caller, amount)} :
        Enter("stake", caller, <<caller, Zero>>, 0, s, r)

CreateFutureCall(caller, buyer, amount, duration) ==
    \E s \in {Storage} :
        \E r \in {create_future(s, caller, buyer, amount, duration)} :
            Enter("create_future", caller, <<caller, buyer>>, duration, s, r)

CancelFutureCall(caller, indexer) ==
    \E s \in {Storage} : \E r \in {cancel_future(s, caller, indexer)} :
        Enter("cancel_future", caller, <<indexer, caller>>, 0, s, r)

SettleFutureCall(caller, buyer) ==
    \E s \in {Storage} : \E r \in {settle_future(s, caller, buyer)} :
        Enter("settle_future", caller, <<caller, buyer>>, 0, s, r)

SubmitPoiCall(subgraph_id, block_number, poi) ==
    \E s \in {Storage} : \E r \in {submit_poi(s, subgraph_id, block_number, poi)} :
        Enter("submit_poi", Zero, <<Zero, Zero>>, 0, s, r)

Stake ==
    \E caller \in Indexers, amount \in StakeAmounts : StakeCall(caller, amount)

CreateFuture ==
    \E caller \in Indexers, buyer \in Buyers, amount \in Amounts,
       duration \in Durations :
        CreateFutureCall(caller, buyer, amount, duration)

CancelFuture ==
    \E caller \in Addr, indexer \in Indexers : CancelFutureCall(caller, indexer)

SettleFuture ==
    \E caller \in Indexers, buyer \in Buyers : SettleFutureCall(caller, buyer)

SubmitPoi ==
    \E k \in PoiKeys, poi \in Pois : SubmitPoiCall(k[1], k[2], poi)

\* the operations that end a Future
EndingOps == {"cancel_future", "settle_future"}

\* transfer_grt: Ok when the gateway call succeeds and returns true, Err
\* when the call fails or returns false
GatewayOutcomes == {"true", "false", "error"}
transfer_grt(outcome) ==
    IF outcome = "error" THEN TransferFailed    \* "GRT transfer failed"
    ELSE IF outcome = "false" THEN TransferFailed  \* "GRT transfer returned false"
    ELSE Ok

\* an Err that leaves the writes of the call in place
RevertNothing(f) ==
    [storage |-> Storage, custody |-> custody, escrows |-> escrows,
     ncalls |-> ncalls]

\* what is left of a frame's effects when its operation returns Err
Revert(f) == f.snap

\* the gateway call of the innermost open frame ends, and the operation
\* runs to its end: to Ok past its last statements, or to Err
GatewayReturn(outcome) ==
    /\ stack # <<>>
    /\ \E f \in {Top} :
        /\ stack' = Pop
        /\ last' = Returned(f, transfer_grt(outcome))
        /\ IF transfer_grt(outcome) = Ok
              THEN /\ Write(AfterTransfer(f, Storage))
                   /\ custody' = custody + CustodyDelta(f.xfer)
                   /\ escrows' = IF f.op \in EndingOps
                                    THEN [escrows EXCEPT ![f.key] = @ - 1]
                                    ELSE escrows
                   /\ ncalls' = ncalls
              ELSE /\ Write(Revert(f).storage)
                   /\ custody' = Revert(f).custody
                   /\ escrows' = Revert(f).escrows
                   /\ ncalls' = Revert(f).ncalls
    /\ UNCHANGED timestamp

TransferReturns == \E outcome \in GatewayOutcomes : GatewayReturn(outcome)

\* a later block
Tick ==
    /\ stack = <<>>
    /\ timestamp < MaxTime
    /\ timestamp < MaxUint
    /\ timestamp' = timestamp + 1
    /\ UNCHANGED <<indexer_stakes, futures, poi_data, custody, escrows, log,
                   stack, last, ncalls>>

Init ==
    /\ indexer_stakes = [a \in Addr |-> 0]
    /\ futures = [k \in Keys |-> ZeroFuture]
    /\ poi_data = [k \in PoiKeys |-> ZeroPoi]
    /\ custody = 0
    /\ escrows = [k \in Keys |-> 0]
    /\ log = <<>>
    /\ timestamp = 1
    /\ stack = <<>>
    /\ last = NoCall
    /\ ncalls = 0

Next ==
    \/ Stake
    \/ CreateFuture
    \/ CancelFuture
    \/ SettleFuture
    \/ SubmitPoi
    \/ TransferReturns
    \/ Tick

Spec == Init /\ [][Next]_vars

\* ================================================================ claims

\* the maturity time as the sum of the two numbers, not reduced to the width
TrueEnd(f) == f.start_time + f.duration

\* the step leaves storage, the contract's balance and the open frames alone
Untouched ==
    UNCHANGED <<indexer_stakes, futures, poi_data, custody, escrows, stack>>

\* C1: a record goes from active to inactive at most once per creation: a
\* cancel_future or settle_future on a key whose record is inactive fails
\* with NoActiveFuture and moves nothing, and at no key are there more
\* payouts than records created.
EndedAtMostOnce ==
    /\ [](\A k \in Keys : escrows[k] >= 0)
    /\ [][\A c \in Addr, x \in Buyers :
            /\ ( /\ x \in Addr
                 /\ ~futures[<<x, c>>].is_active
                 /\ last'.op = "cancel_future"
                 /\ CancelFutureCall(c, x) )
                  => (last'.result = NoActiveFuture /\ Untouched)
            /\ ( /\ ~futures[<<c, x>>].is_active
                 /\ last'.op = "settle_future"
                 /\ SettleFutureCall(c, x) )
                  => (last'.result = NoActiveFuture /\ Untouched)]_vars

\* a cancel or settle was rejected at a key whose record was created once,
\* has been paid out once and is inactive
EndedAtMostOnceWitness ==
    /\ last.op \in EndingOps
    /\ last.result = NoActiveFuture
    /\ futures[last.key].indexer = last.key[1]
    /\ ~futures[last.key].is_active
    /\ escrows[last.key] = 0
    /\ stack = <<>>

\* C2: cancel_future and settle_future store is_active = false before they
\* call the gateway: a cancel_future or settle_future on the same key that
\* re-enters during that transfer, before any other re-entrant call has
\* left writes, is rejected with NoActiveFuture and moves nothing.
ReentrantEndRejected ==
    [][\A c \in Addr, x \in Buyers :
          /\ ( /\ stack # <<>>
               /\ x \in Addr
               /\ Top.op \in EndingOps
               /\ ncalls = Top.snap.ncalls + 1
               /\ Top.key = <<x, c>>
               /\ last'.op = "cancel_future"
               /\ CancelFutureCall(c, x) )
                => (last'.result = NoActiveFuture /\ Untouched)
          /\ ( /\ stack # <<>>
               /\ Top.op \in EndingOps
               /\ ncalls = Top.snap.ncalls + 1
               /\ Top.key = <<c, x>>
               /\ last'.op = "settle_future"
               /\ SettleFutureCall(c, x) )
                => (last'.result = NoActiveFuture /\ Untouched)]_vars

\* inside the gateway call of a cancel_future, a cancel_future or
\* settle_future on the same key has just been rejected
ReentrantEndRejectedWitness ==
    /\ stack # <<>>
    /\ Top.op = "cancel_future"
    /\ Top.amount > 0
    /\ last.op \in EndingOps
    /\ last.key = Top.key
    /\ last.result = NoActiveFuture
    /\ ncalls = Top.snap.ncalls + 1

\* C3: stake and create_future write storage only after their transfer has
\* succeeded: while the gateway call they made is running and nothing has
\* re-entered yet, the caller's stake and the record at the key are what
\* they were before the call.
WritesAfterTransfer ==
    (stack # <<>> /\ last.result = Pending) =>
        /\ Top.op = "stake" =>
              indexer_stakes[Top.caller] = Top.snap.storage.indexer_stakes[Top.caller]
        /\ Top.op = "create_future" =>
              futures[Top.key] = Top.snap.storage.futures[Top.key]

StakeNeverDecreases ==
    [][\A a \in Addr :
          /\ (stack = <<>> /\ stack' = <<>>) =>
                indexer_stakes'[a] >= indexer_stakes[a]
          /\ (stack # <<>> /\ stack' = <<>>) =>
                indexer_stakes'[a] >= stack[1].snap.storage.indexer_stakes[a]]_vars

\* C6: create_future at a key whose record is active fails with
\* DuplicateFuture whatever the amount, the duration and the stake are,
\* writes nothing and asks for no transfer.
DuplicateRejected ==
    [][last'.op = "create_future" =>
          \A c \in Addr, b \in Buyers, a \in Amounts, d \in Durations :
              ( /\ last'.key = <<c, b>>
                /\ last'.amount = a
                /\ futures[<<c, b>>].is_active
                /\ CreateFutureCall(c, b, a, d) )
                  => (last'.result = DuplicateFuture /\ Untouched)]_vars

\* a create_future was rejected as a duplicate although its amount is above
\* the caller's stake
DuplicateRejectedWitness ==
    /\ last.op = "create_future"
    /\ last.result = DuplicateFuture
    /\ last.amount > indexer_stakes[last.caller]
    /\ futures[last.key].is_active

\* C7: settle_future of an active record fails with NotMatured, leaving the
\* record active, when the clock is below start_time + duration taken as
\* the sum of the two numbers, and passes the maturity check otherwise.
MaturesAtTrueSum ==
    [][\A c \in Addr, x \in Buyers :
          ( /\ futures[<<c, x>>].is_active
            /\ last'.op = "settle_future"
            /\ SettleFutureCall(c, x) ) =>
              IF timestamp < TrueEnd(futures[<<c, x>>])
                  THEN last'.result = NotMatured /\ Untouched
                  ELSE last'.result \in {PerformanceCheckFailed, Pending}]_vars

\* C8: create_future at a key with no active record fails with
\* InsufficientStake, writing nothing and asking for no transfer, when the
\* amount is above the caller's stake, and goes on to the transfer otherwise.
StakeChecked ==
    [][last'.op = "create_future" =>
          \A c \in Addr, b \in Buyers, a \in Amounts, d \in Durations :
              ( /\ last'.key = <<c, b>>
                /\ last'.amount = a
                /\ ~futures[<<c, b>>].is_active
                /\ CreateFutureCall(c, b, a, d) ) =>
                  IF a > indexer_stakes[c]
                      THEN last'.result = InsufficientStake /\ Untouched
                      ELSE last'.result = Pending]_vars

\* a create_future was rejected for its amount by an indexer that has stake
StakeCheckedWitness ==
    /\ last.op = "create_future"
    /\ last.result = InsufficientStake
    /\ indexer_stakes[last.caller] > 0
    /\ last.amount > indexer_stakes[last.caller]
    /\ ~futures[last.key].is_active

\* C9: settle_future goes through exactly when the record is active, the
\* clock has reached start_time + duration (the sum of the two numbers) and
\* the caller has stake; it is rejected with NoActiveFuture, NotMatured,
\* PerformanceCheckFailed in that order; when it goes through the record is
\* inactive, one FutureSettled event is logged, and the transfer is of the
\* record's amount from the contract to the caller.
SettlesExactlyWhen ==
    [][\A c \in Addr, x \in Buyers :
          (last'.op = "settle_future" /\ SettleFutureCall(c, x)) =>
              LET f == futures[<<c, x>>] IN
              /\ last'.result =
                    IF ~f.is_active THEN NoActiveFuture
                    ELSE IF timestamp < TrueEnd(f) THEN NotMatured
                    ELSE IF indexer_stakes[c] = 0 THEN PerformanceCheckFailed
                    ELSE Pending
              /\ last'.result = Pending =>
                    /\ ~futures'[<<c, x>>].is_active
                    /\ Top'.xfer.from = Self
                    /\ Top'.xfer.to = c
                    /\ Top'.xfer.amount = f.amount
                    /\ Len(log') = Len(Storage.log) + 1
                    /\ log'[Len(log')] = [name |-> "FutureSettled", indexer |-> c,
                                          buyer |-> x, amount |-> f.amount]]_vars

\* C10: cancel_future of an active record goes on to the transfer whatever
\* the clock and the indexer's stake are: the record is made inactive and
\* the transfer asked for is of the record's amount from the contract to
\* the caller; when the transfer succeeds the call returns Ok and the
\* contract's balance is lower by that amount; a settle_future on the
\* inactive record fails with NoActiveFuture.
CancelAnyTime ==
    [][ /\ \A c \in Addr, x \in Addr :
              /\ ( /\ futures[<<x, c>>].is_active
                   /\ last'.op = "cancel_future"
                   /\ CancelFutureCall(c, x) ) =>
                    /\ last'.result = Pending
                    /\ ~futures'[<<x, c>>].is_active
                    /\ Top'.xfer.from = Self
                    /\ Top'.xfer.to = c
                    /\ Top'.xfer.amount = futures[<<x, c>>].amount
              /\ ( /\ ~futures[<<x, c>>].is_active
                   /\ last'.op = "settle_future"
                   /\ SettleFutureCall(x, c) ) =>
                    last'.result = NoActiveFuture
        /\ (stack # <<>> /\ Top.op = "cancel_future" /\ GatewayReturn("true")) =>
              /\ last'.result = Ok
              /\ custody' = custody - Top.amount
              /\ Top.amount = Top.snap.storage.futures[Top.key].amount ]_vars

\* a cancel_future of a positive amount returned Ok after the Future had
\* matured, by an indexer without stake left
CancelAnyTimeWitness ==
    /\ last.op = "cancel_future"
    /\ last.result = Ok
    /\ last.amount > 0
    /\ ~futures[last.key].is_active
    /\ futures[last.key].amount = last.amount
    /\ timestamp >= TrueEnd(futures[last.key])
    /\ stack = <<>>

\* C11: the refund of cancel_future and the payout of settle_future ask the
\* gateway for transfer(to, amount), and stake and create_future ask it for
\* transferFrom(from, to, amount).
OutboundByTransfer ==
    \A i \in 1 .. Len(stack) :
        stack[i].xfer.variant =
            IF stack[i].op \in EndingOps THEN "transfer" ELSE "transferFrom"

\* C12: a stake(n) that returns Ok, no other call having run inside it,
\* leaves the caller's ledger entry at its value before the call plus n, as
\* the sum of the two numbers, and every other entry as it was.
StakeAddsExactly ==
    [][ ( /\ stack # <<>>
          /\ Top.op = "stake"
          /\ ncalls = Top.snap.ncalls + 1
          /\ GatewayReturn("true") ) =>
            /\ last'.result = Ok
            /\ indexer_stakes' =
                  [Top.snap.storage.indexer_stakes EXCEPT
                      ![Top.caller] = @ + Top.amount] ]_vars

\* C13: with no call open, every record that was ever written has an
\* indexer that is not its buyer.
IndexerIsNotBuyer ==
    stack = <<>> =>
        \A k \in Keys :
            futures[k] # ZeroFuture => futures[k].indexer # futures[k].buyer

\* C14: create_future at a key whose record was ended (written, inactive),
\* with an amount within the caller's stake, goes on to the transfer with
\* the record replaced whole: the new amount and duration, start_time at the
\* clock of this call, is_active true; when the transfer succeeds the call
\* returns Ok and the record stays as written.
KeyReusable ==
    [][ /\ last'.op = "create_future" =>
              \A c \in Addr, b \in Buyers, a \in Amounts, d \in Durations :
                  ( /\ last'.key = <<c, b>>
                    /\ last'.amount = a
                    /\ futures[<<c, b>>] # ZeroFuture
                    /\ ~futures[<<c, b>>].is_active
                    /\ a <= indexer_stakes[c]
                    /\ CreateFutureCall(c, b, a, d) ) =>
                      /\ last'.result = Pending
                      /\ futures'[<<c, b>>] =
                            [indexer |-> c, buyer |-> b, amount |-> a,
                             start_time |-> timestamp, duration |-> d,
                             is_active |-> TRUE]
        /\ (stack # <<>> /\ Top.op = "create_future" /\ GatewayReturn("true")) =>
              /\ last'.result = Ok
              /\ futures' = futures ]_vars

\* a create_future has replaced an ended record by an active one of another
\* duration and a later start_time
KeyReusableWitness ==
    /\ stack # <<>>
    /\ last.op = "create_future"
    /\ last.result = Pending
    /\ Top.op = "create_future"
    /\ Top.snap.storage.futures[Top.key] # ZeroFuture
    /\ ~Top.snap.storage.futures[Top.key].is_active
    /\ futures[Top.key].is_active
    /\ futures[Top.key].start_time = timestamp
    /\ futures[Top.key].start_time > Top.snap.storage.futures[Top.key].start_time
    /\ futures[Top.key].duration # Top.snap.storage.futures[Top.key].duration

\* C15: create_future, cancel_future and settle_future leave the Stake
\* Ledger as it is, when they are called and when they return Ok, and one
\* that fails in its transfer leaves the ledger as it was at its call; so
\* an indexer's stake can back Futures whose amounts sum to more than it.
StakeNotReserved ==
    [][ /\ ( /\ last'.op \in {"create_future", "cancel_future", "settle_future"}
              /\ Len(stack') >= Len(stack) ) =>
                indexer_stakes' = indexer_stakes
        /\ ( /\ stack # <<>>
              /\ Top.op \in {"create_future", "cancel_future", "settle_future"}
              /\ Len(stack') < Len(stack) ) =>
                indexer_stakes' = IF last'.result = Ok
                                     THEN indexer_stakes
                                     ELSE Top.snap.storage.indexer_stakes ]_vars

\* one indexer has active Futures with two buyers, each amount within its
\* stake and the two together above it
StakeNotReservedWitness ==
    /\ stack = <<>>
    /\ \E i \in Addr : \E b1 \in Addr, b2 \in Addr :
          /\ b1 # b2
          /\ futures[<<i, b1>>].is_active
          /\ futures[<<i, b2>>].is_active
          /\ futures[<<i, b1>>].amount <= indexer_stakes[i]
          /\ futures[<<i, b2>>].amount <= indexer_stakes[i]
          /\ futures[<<i, b1>>].amount + futures[<<i, b2>>].amount
                > indexer_stakes[i]

\* C16: submit_poi returns Ok in every state and for every key and value,
\* and leaves the Attestation Log with the value at the key, whatever was
\* there before, and with every other entry as it was.
PoiOverwrites ==
    /\ [](\A k \in PoiKeys, p \in Pois :
             submit_poi(Storage, k[1], k[2], p).result = Ok)
    /\ [][last'.op = "submit_poi" =>
             \A k \in PoiKeys, p \in Pois :
                 ( /\ log'[Len(log')].poi = p
                   /\ log'[Len(log')].blockNumber = k[2]
                   /\ SubmitPoiCall(k[1], k[2], p) ) =>
                     /\ last'.result = Ok
                     /\ poi_data' = [poi_data EXCEPT ![k] = p]]_vars

\* two submit_poi of one call chain wrote different values at one key, and
\* the entry holds the second
PoiOverwritesWitness ==
    /\ last.op = "submit_poi"
    /\ Len(log) >= 2
    /\ LET e1 == log[Len(log) - 1]
           e2 == log[Len(log)]
       IN  /\ e1.name = "POISubmitted"
           /\ e2.name = "POISubmitted"
           /\ e1.subgraphId = e2.subgraphId
           /\ e1.blockNumber = e2.blockNumber
           /\ e1.poi # e2.poi
           /\ poi_data[<<e2.subgraphId, e2.blockNumber>>] = e2.poi

\* C17: each operation writes its own part of the state only. submit_poi
\* leaves the ledger, the registry and the contract's balance as they are,
\* and every create_future, cancel_future and settle_future has the same
\* result and transfer after it as before it; stake leaves the registry and
\* the Attestation Log as they are; create_future, cancel_future and
\* settle_future leave the ledger and the Attestation Log as they are and
\* write no record but the one keyed by the caller as indexer (create,
\* settle) or as buyer (cancel); what an operation does after its transfer
\* writes none of the three.
OwnPartOnly ==
    [][ /\ last'.op = "submit_poi" =>
              /\ indexer_stakes' = indexer_stakes
              /\ futures' = futures
              /\ custody' = custody
              /\ \A c \in Addr, x \in Addr :
                    /\ cancel_future(Storage', c, x).result
                          = cancel_future(Storage, c, x).result
                    /\ cancel_future(Storage', c, x).xfer
                          = cancel_future(Storage, c, x).xfer
              /\ \A c \in Addr, x \in Buyers :
                    /\ settle_future(Storage', c, x).result
                          = settle_future(Storage, c, x).result
                    /\ settle_future(Storage', c, x).xfer
                          = settle_future(Storage, c, x).xfer
                    /\ \A a \in Amounts, d \in Durations :
                          create_future(Storage', c, x, a, d).result
                            = create_future(Storage, c, x, a, d).result
        /\ (last'.op = "stake" /\ Len(stack') >= Len(stack)) =>
              /\ futures' = futures
              /\ poi_data' = poi_data
        /\ ( /\ last'.op \in {"create_future", "cancel_future", "settle_future"}
              /\ Len(stack') >= Len(stack) ) =>
                /\ indexer_stakes' = indexer_stakes
                /\ poi_data' = poi_data
                /\ \A k \in Keys :
                      futures'[k] # futures[k] =>
                          /\ k = last'.key
                          /\ last'.caller =
                                IF last'.op = "cancel_future" THEN k[2] ELSE k[1]
        /\ (Len(stack') < Len(stack) /\ last'.result = Ok) =>
              /\ indexer_stakes' = indexer_stakes
              /\ futures' = futures
              /\ poi_data' = poi_data ]_vars

\* a buyer has cancelled its Future while the indexer's Future with another
\* buyer stays active
OwnPartOnlyWitness ==
    /\ stack = <<>>
    /\ last.op = "cancel_future"
    /\ last.result = Ok
    /\ last.key[2] = last.caller
    /\ ~futures[last.key].is_active
    /\ \E b \in Addr :
          /\ b # last.caller
          /\ futures[<<last.key[1], b>>].is_active

\* the sum of amount over the active records at the keys of S
RECURSIVE ActiveAmount(_)
ActiveAmount(S) ==
    IF S = {} THEN 0
    ELSE LET k == CHOOSE x \in S : TRUE
         IN  (IF futures[k].is_active THEN futures[k].amount ELSE 0)
                 + ActiveAmount(S \ {k})

\* C18: with no call open, the tokens the gateway holds for the contract are
\* the sum of amount over the active records; staked tokens are not among
\* them.
CustodyIsActiveEscrow ==
    stack = <<>> => custody = ActiveAmount(Keys)

\* C19: with no call open, the amount of every record that was ever
\* written, active or not, is within the stake of the record's indexer.
AmountWithinStake ==
    stack = <<>> =>
        \A k \in Keys :
            futures[k] # ZeroFuture =>
                futures[k].amount <= indexer_stakes[futures[k].indexer]

\* C20: settle_future fails with PerformanceCheckFailed only at a record
\* whose amount is 0, and no active record with a positive amount belongs
\* to an indexer whose stake is 0.
PerformanceFailsOnlyUnbacked ==
    [][ /\ last'.op = "settle_future" =>
              \A c \in Addr, x \in Buyers :
                  ( /\ last'.key = <<c, x>>
                    /\ last'.result = PerformanceCheckFailed
                    /\ SettleFutureCall(c, x) ) =>
                      futures[<<c, x>>].amount = 0
        /\ stack' = <<>> =>
              \A k \in Keys :
                  (futures'[k].is_active /\ futures'[k].amount > 0) =>
                      check_indexer_performance(Storage', futures'[k].indexer) ]_vars

====
